---- MODULE Spec2Model ----
(***************************************************************************)
(* Model of lambdaCode/SlackBot.py: a Lambda handler that receives Slack   *)
(* events, runs the user's text through a ConversationalRetrievalChain     *)
(* (condense -> retrieve -> generate), records the turn in the module-level*)
(* chat_history and posts the answer back with chat.postMessage.           *)
(*                                                                         *)
(* Texts are modelled as sequences of tokens, so that str.replace and      *)
(* string concatenation are computed rather than assumed.                  *)
(***************************************************************************)
EXTENDS Integers, Sequences, FiniteSets, TLC

\* ------------------------------------------------------------------ bounds
\* Number of events delivered to handler in one behaviour.
MaxEvents == 2
\* Largest number of documents the index answers a query with.
MaxResp == 2
\* Largest number of documents of an index that holds more than top_k matches.
MaxIndexLen == 6

\* ------------------------------------------------------- program constants
\* AmazonKendraRetriever(..., top_k=5, ...)
top_k == 5

\* The bot's own Slack user id, and the mention of it inside a text.
BotUser == "U079K9G0R7X"
Mention == "<@U079K9G0R7X>"
\* The literal that call_bedrock puts between the answer and the sources.
SourcesHeader == "\\n Sources:"

\* ------------------------------------------------------------------ inputs
None == "None"
Users == {BotUser, "U1"}
Channels == {"C1", "C2"}
Challenges == {"ch1", "ch2"}
\* event.text values: with and without a mention of the bot.
Texts == {<<"q1">>, <<Mention, "q2">>}
\* What the LLM may answer to the condense prompt and to the QA prompt.
LLMQuestions == {<<"sq">>}
LLMAnswers == {"a1", "a2"}
\* metadata['source'] of a retrieved document; NoSource: the key is absent.
NoSource == "<no source>"
SourceIds == {"s1", "s2"}
Document == [source : SourceIds \cup {NoSource}]

\* Invocations that may be in flight: one in a Lambda execution environment,
\* two when the host lets invocations overlap on the same module state.
Procs == {1, 2}
SeqProcs == {1}

SeqsUpTo(S, n) == UNION {[1..k -> S] : k \in 0..n}
\* What the index may answer: any list of documents, in relevance order.
IndexResponses == SeqsUpTo(Document, MaxResp)

\* An answer of n documents in relevance order whose sources alternate, so
\* that neighbours differ; document number bad (if any) has no source.
RankedResponse(n, bad) ==
  [i \in 1..n |->
     [source |-> IF i = bad THEN NoSource
                 ELSE IF i % 2 = 1 THEN "s1" ELSE "s2"]]
\* What a large index may answer: up to MaxIndexLen documents.
LongResponses ==
  {RankedResponse(n, bad) : n \in 0..MaxIndexLen, bad \in {0, 1, MaxIndexLen}}

ChallengeEvents ==
  {[type |-> "url_verification", challenge |-> c, user |-> None,
    channel |-> None, hasText |-> FALSE, text |-> <<>>] : c \in Challenges}
\* hasText = FALSE: the Slack event carries no "text" field (text is None).
MessageEvents ==
  {[type |-> "event_callback", challenge |-> None, user |-> u,
    channel |-> c, hasText |-> TRUE, text |-> t] :
      u \in Users, c \in Channels, t \in Texts}
  \cup
  {[type |-> "event_callback", challenge |-> None, user |-> u,
    channel |-> c, hasText |-> FALSE, text |-> <<>>] :
      u \in Users, c \in Channels}
Events == ChallengeEvents \cup MessageEvents
NoEvent == [type |-> None, challenge |-> None, user |-> None,
            channel |-> None, hasText |-> FALSE, text |-> <<>>]

NoResponse == [statusCode |-> 0, body |-> None]

VARIABLES
  chat_history,  \* the module-level list of (question, answer) tuples
  turn_key,      \* per turn of chat_history: the channel/user that recorded it
  okTurns,       \* the turns of the calls of call_bedrock that returned
  nEvents,       \* events delivered to handler so far
  pc,            \* per invocation: its control point
  ev,            \* per invocation: the event being handled
  question,      \* per invocation: the argument of call_bedrock
  standalone,    \* per invocation: the condensed question
  docs,          \* per invocation: result['source_documents']
  answer,        \* per invocation: result['answer']
  msg,           \* per invocation: result2, the text call_bedrock returns
  response,      \* per invocation: what handler returned
  failedAt,      \* per invocation: where an exception was raised
  posts,         \* per invocation: the chat.postMessage requests it issued
  calls,         \* per invocation: how often it ran the chain
  histAtStart,   \* per invocation: chat_history when call_bedrock was entered
  histSeen,      \* per invocation: the chat_history the condenser was given
  indexResp      \* per invocation: what the index answered the retriever

vars == <<chat_history, turn_key, okTurns, nEvents, pc, ev, question,
          standalone, docs, answer, msg, response, failedAt, posts, calls,
          histAtStart, histSeen, indexResp>>

globals == <<chat_history, turn_key, okTurns>>

\* ------------------------------------------------------------ pure helpers
Min(a, b) == IF a < b THEN a ELSE b

IsPrefix(s, t) == Len(s) <= Len(t) /\ SubSeq(t, 1, Len(s)) = s

\* slack_text.replace('<@U079K9G0R7X>', '')
StripMention(text) == SelectSeq(text, LAMBDA t : t # Mention)

\* A retriever that hands on whatever the index answered.
TopKUnlimited(resp) == resp

\* The retriever keeps the first top_k documents of the index's answer.
TopK(resp) == SubSeq(resp, 1, Min(Len(resp), top_k))

\* The conversation an event belongs to.
Key(e) == <<e.channel, e.user>>

\* return_source_documents=True: the chain's result always has the key
\* 'source_documents'.
return_source_documents == TRUE

\* The separator call_bedrock writes before each source.
SourceSep == "\\n"

\* A listing that names each source once.
RECURSIVE AppendSourcesDistinct(_, _)
AppendSourcesDistinct(result2, ds) ==
  IF ds = <<>> THEN [ok |-> TRUE, text |-> result2]
  ELSE IF Head(ds).source = NoSource THEN [ok |-> FALSE, text |-> result2]
  ELSE IF \E i \in 3..Len(result2) : result2[i] = Head(ds).source
       THEN AppendSourcesDistinct(result2, Tail(ds))
       ELSE AppendSourcesDistinct(result2 \o <<SourceSep, Head(ds).source>>, Tail(ds))

\* for d in result['source_documents']: result2 = result2 + "\\n" + d.metadata['source']
\* ok = FALSE: reading metadata['source'] raised.
RECURSIVE AppendSources(_, _)
AppendSources(result2, ds) ==
  IF ds = <<>> THEN [ok |-> TRUE, text |-> result2]
  ELSE IF Head(ds).source = NoSource THEN [ok |-> FALSE, text |-> result2]
  ELSE AppendSources(result2 \o <<SourceSep, Head(ds).source>>, Tail(ds))

\* A formatting that reads the first document before looking at the list.
FormatResultNeedsDocs(a, ds) ==
  IF ds = <<>> THEN [ok |-> FALSE, text |-> <<a>>]
  ELSE AppendSources(<<a, SourcesHeader>>, ds)

\* Lines 160-165 of call_bedrock: the text built from the chain's result.
FormatResult(a, ds) ==
  IF return_source_documents
  THEN AppendSources(<<a, SourcesHeader>>, ds)
  ELSE [ok |-> TRUE, text |-> <<a>>]

\* The source identifiers listed in a text built by FormatResult.
RECURSIVE CitedFrom(_)
CitedFrom(tokens) ==
  IF Len(tokens) < 2 THEN <<>>
  ELSE <<tokens[2]>> \o CitedFrom(SubSeq(tokens, 3, Len(tokens)))
CitedSources(text) ==
  IF Len(text) >= 2 /\ text[2] = SourcesHeader
  THEN CitedFrom(SubSeq(text, 3, Len(text)))
  ELSE <<>>

\* ------------------------------------------------------------------- state
Init ==
  /\ chat_history = <<>>
  /\ turn_key = <<>>
  /\ okTurns = <<>>
  /\ nEvents = 0
  /\ pc = [p \in Procs |-> "idle"]
  /\ ev = [p \in Procs |-> NoEvent]
  /\ question = [p \in Procs |-> <<>>]
  /\ standalone = [p \in Procs |-> <<>>]
  /\ docs = [p \in Procs |-> <<>>]
  /\ answer = [p \in Procs |-> None]
  /\ msg = [p \in Procs |-> <<>>]
  /\ response = [p \in Procs |-> NoResponse]
  /\ failedAt = [p \in Procs |-> "none"]
  /\ posts = [p \in Procs |-> <<>>]
  /\ calls = [p \in Procs |-> 0]
  /\ histAtStart = [p \in Procs |-> <<>>]
  /\ histSeen = [p \in Procs |-> <<>>]
  /\ indexResp = [p \in Procs |-> <<>>]

\* An invocation slot is free when handler is not running in it.
Free(p) == pc[p] \in {"idle", "done", "raised"}

\* The host delivers event e to handler in slot p: the invocation's locals
\* start afresh, the module-level state is what the process holds.
Begin(p, e) ==
  /\ Free(p)
  /\ nEvents < MaxEvents
  /\ nEvents' = nEvents + 1
  /\ ev' = [ev EXCEPT ![p] = e]
  /\ standalone' = [standalone EXCEPT ![p] = <<>>]
  /\ docs' = [docs EXCEPT ![p] = <<>>]
  /\ answer' = [answer EXCEPT ![p] = None]
  /\ msg' = [msg EXCEPT ![p] = <<>>]
  /\ posts' = [posts EXCEPT ![p] = <<>>]
  /\ histSeen' = [histSeen EXCEPT ![p] = <<>>]
  /\ indexResp' = [indexResp EXCEPT ![p] = <<>>]
  /\ UNCHANGED globals

\* A handler whose test of the type never matches: the verification request
\* goes to handle_message, which finds no 'event' in the body and raises.
HandleChallengeAsMessage(p, e) ==
  /\ e.type = "url_verification"
  /\ Begin(p, e)
  /\ pc' = [pc EXCEPT ![p] = "raised"]
  /\ response' = [response EXCEPT ![p] = NoResponse]
  /\ failedAt' = [failedAt EXCEPT ![p] = "text"]
  /\ question' = [question EXCEPT ![p] = <<>>]
  /\ calls' = [calls EXCEPT ![p] = 0]
  /\ histAtStart' = [histAtStart EXCEPT ![p] = <<>>]

\* handler -> handle_challenge: 200 with the challenge of the body.
HandleChallenge(p, e) ==
  /\ e.type = "url_verification"
  /\ Begin(p, e)
  /\ pc' = [pc EXCEPT ![p] = "done"]
  /\ response' = [response EXCEPT ![p] = [statusCode |-> 200, body |-> e.challenge]]
  /\ failedAt' = [failedAt EXCEPT ![p] = "none"]
  /\ question' = [question EXCEPT ![p] = <<>>]
  /\ calls' = [calls EXCEPT ![p] = 0]
  /\ histAtStart' = [histAtStart EXCEPT ![p] = <<>>]

\* handle_message without the test of slack_user: the bot's own message
\* goes through call_bedrock like any other.
HandleBotMessageUnguarded(p, e) ==
  /\ e.type # "url_verification"
  /\ e.user = BotUser
  /\ e.hasText
  /\ Begin(p, e)
  /\ pc' = [pc EXCEPT ![p] = "received"]
  /\ response' = [response EXCEPT ![p] = NoResponse]
  /\ failedAt' = [failedAt EXCEPT ![p] = "none"]
  /\ question' = [question EXCEPT ![p] = StripMention(e.text)]
  /\ calls' = [calls EXCEPT ![p] = 1]
  /\ histAtStart' = [histAtStart EXCEPT ![p] = chat_history]

\* handler -> handle_message, slack_user == "U079K9G0R7X": nothing but the 200.
HandleBotMessage(p, e) ==
  /\ e.type # "url_verification"
  /\ e.user = BotUser
  /\ Begin(p, e)
  /\ pc' = [pc EXCEPT ![p] = "done"]
  /\ response' = [response EXCEPT ![p] = [statusCode |-> 200, body |-> "message recevied"]]
  /\ failedAt' = [failedAt EXCEPT ![p] = "none"]
  /\ question' = [question EXCEPT ![p] = <<>>]
  /\ calls' = [calls EXCEPT ![p] = 0]
  /\ histAtStart' = [histAtStart EXCEPT ![p] = <<>>]

\* handler -> handle_message for another user, event without a text:
\* slack_text is None and slack_text.replace raises before call_bedrock.
HandleTextlessMessage(p, e) ==
  /\ e.type # "url_verification"
  /\ e.user # BotUser
  /\ ~e.hasText
  /\ Begin(p, e)
  /\ pc' = [pc EXCEPT ![p] = "raised"]
  /\ response' = [response EXCEPT ![p] = NoResponse]
  /\ failedAt' = [failedAt EXCEPT ![p] = "text"]
  /\ question' = [question EXCEPT ![p] = <<>>]
  /\ calls' = [calls EXCEPT ![p] = 0]
  /\ histAtStart' = [histAtStart EXCEPT ![p] = <<>>]

\* handler -> handle_message -> call_bedrock -> run_chain: the chain is
\* called with the text without the mention and with chat_history.
HandleMessage(p, e) ==
  /\ e.type # "url_verification"
  /\ e.user # BotUser
  /\ e.hasText
  /\ Begin(p, e)
  /\ pc' = [pc EXCEPT ![p] = "received"]
  /\ response' = [response EXCEPT ![p] = NoResponse]
  /\ failedAt' = [failedAt EXCEPT ![p] = "none"]
  /\ question' = [question EXCEPT ![p] = StripMention(e.text)]
  /\ calls' = [calls EXCEPT ![p] = 1]
  /\ histAtStart' = [histAtStart EXCEPT ![p] = chat_history]

\* An exception leaves the current stage: it propagates through run_chain,
\* call_bedrock, handle_message and handler, none of which catches it.
Raise(p, stage) ==
  /\ pc' = [pc EXCEPT ![p] = "raised"]
  /\ failedAt' = [failedAt EXCEPT ![p] = stage]

\* ---------------------------------------------- the chain, stage by stage
\* Stage 1 with an empty chat_history: the chain makes no LLM call and uses
\* the question as the standalone question.
CondensePassThrough(p) ==
  /\ pc[p] = "received"
  /\ chat_history = <<>>
  /\ histSeen' = [histSeen EXCEPT ![p] = chat_history]
  /\ standalone' = [standalone EXCEPT ![p] = question[p]]
  /\ pc' = [pc EXCEPT ![p] = "condensed"]
  /\ UNCHANGED <<globals, nEvents, ev, question, docs, answer, msg, response,
                 failedAt, posts, calls, histAtStart,
                 indexResp>>

\* Stage 1 with turns in chat_history: the LLM rephrases the question from
\* the history it is given.
CondenseOk(p, sq) ==
  /\ pc[p] = "received"
  /\ chat_history # <<>>
  /\ histSeen' = [histSeen EXCEPT ![p] = chat_history]
  /\ standalone' = [standalone EXCEPT ![p] = sq]
  /\ pc' = [pc EXCEPT ![p] = "condensed"]
  /\ UNCHANGED <<globals, nEvents, ev, question, docs, answer, msg, response,
                 failedAt, posts, calls, histAtStart,
                 indexResp>>

\* Stage 1: the LLM call raises.
CondenseFails(p) ==
  /\ pc[p] = "received"
  /\ chat_history # <<>>
  /\ histSeen' = [histSeen EXCEPT ![p] = chat_history]
  /\ Raise(p, "condensing")
  /\ UNCHANGED <<globals, nEvents, ev, question, standalone, docs, answer,
                 msg, response, posts, calls, histAtStart,
                 indexResp>>

\* Stage 2: the index answers with resp, the retriever keeps top_k of it. An
\* empty answer is a result like any other.
RetrieveOk(p, resp) ==
  /\ pc[p] = "condensed"
  /\ indexResp' = [indexResp EXCEPT ![p] = resp]
  /\ docs' = [docs EXCEPT ![p] = TopK(resp)]
  /\ pc' = [pc EXCEPT ![p] = "retrieved"]
  /\ UNCHANGED <<globals, nEvents, ev, question, standalone, answer, msg,
                 response, failedAt, posts, calls, histAtStart, histSeen>>

\* A retrieval failure that starts the chain again instead of raising.
RetrieveRetries(p) ==
  /\ pc[p] = "condensed"
  /\ pc' = [pc EXCEPT ![p] = "received"]
  /\ UNCHANGED <<globals, nEvents, ev, question, standalone, docs, answer,
                 msg, response, failedAt, posts, calls, histAtStart, histSeen,
                 indexResp>>

\* Stage 2: the index call raises.
RetrieveFails(p) ==
  /\ pc[p] = "condensed"
  /\ Raise(p, "retrieving")
  /\ UNCHANGED <<globals, nEvents, ev, question, standalone, docs, answer,
                 msg, response, posts, calls, histAtStart, histSeen,
                 indexResp>>

\* Stage 3: the LLM answers the QA prompt built from the documents (none
\* included) and the standalone question; the chain returns its result.
GenerateOk(p, a) ==
  /\ pc[p] = "retrieved"
  /\ answer' = [answer EXCEPT ![p] = a]
  /\ pc' = [pc EXCEPT ![p] = "generated"]
  /\ UNCHANGED <<globals, nEvents, ev, question, standalone, docs, msg,
                 response, failedAt, posts, calls, histAtStart, histSeen,
                 indexResp>>

\* A generation failure that records the question before it raises.
GenerateFailsRecords(p) ==
  /\ pc[p] = "retrieved"
  /\ chat_history' = Append(chat_history, <<question[p], None>>)
  /\ turn_key' = Append(turn_key, Key(ev[p]))
  /\ Raise(p, "generating")
  /\ UNCHANGED <<okTurns, nEvents, ev, question, standalone, docs, answer,
                 msg, response, posts, calls, histAtStart, histSeen,
                 indexResp>>

\* Stage 3: the LLM call raises.
GenerateFails(p) ==
  /\ pc[p] = "retrieved"
  /\ Raise(p, "generating")
  /\ UNCHANGED <<globals, nEvents, ev, question, standalone, docs, answer,
                 msg, response, posts, calls, histAtStart, histSeen,
                 indexResp>>

\* ------------------------------------- call_bedrock after the chain returned
\* A turn that stores the answer followed by the sources header.
RecordedWithSources(h, q, a) == Append(h, <<q, a, SourcesHeader>>)

\* A history that keeps the latest turn only.
RecordedLatestOnly(h, q, a) == <<<<q, a>>>>

\* chat_history.append((question, result["answer"]))
Recorded(h, q, a) == Append(h, <<q, a>>)

\* Lines 159-165: the turn is appended, then the text with the sources is
\* built; reading a document's metadata['source'] may raise.
Record(p) ==
  /\ pc[p] = "generated"
  /\ chat_history' = Recorded(chat_history, question[p], answer[p])
  /\ turn_key' = Append(turn_key, Key(ev[p]))
  /\ LET r == FormatResult(answer[p], docs[p]) IN
       IF r.ok
       THEN /\ msg' = [msg EXCEPT ![p] = r.text]
            /\ okTurns' = Append(okTurns, <<question[p], answer[p]>>)
            /\ pc' = [pc EXCEPT ![p] = "returned"]
            /\ UNCHANGED failedAt
       ELSE /\ Raise(p, "sources")
            /\ UNCHANGED <<msg, okTurns>>
  /\ UNCHANGED <<nEvents, ev, question, standalone, docs, answer, response,
                 posts, calls, histAtStart, histSeen,
                 indexResp>>

\* ------------------------------------------- handle_message after the call
\* A request addressed to one fixed channel.
PostDataFixedChannel(e, m) == [channel |-> "C1", mention |-> e.user, text |-> m]

\* data = {'channel': channel, 'text': f"<@{slack_user}> {msg}"}
PostData(e, m) == [channel |-> e.channel, mention |-> e.user, text |-> m]

\* http.request('POST', SLACK_URL, ...) is sent; handle_message returns 200.
Post(p) ==
  /\ pc[p] = "returned"
  /\ posts' = [posts EXCEPT ![p] = Append(posts[p], PostData(ev[p], msg[p]))]
  /\ response' = [response EXCEPT ![p] = [statusCode |-> 200, body |-> "message recevied"]]
  /\ pc' = [pc EXCEPT ![p] = "done"]
  /\ UNCHANGED <<globals, nEvents, ev, question, standalone, docs, answer,
                 msg, failedAt, calls, histAtStart, histSeen,
                 indexResp>>

\* http.request raises (no connection to Slack): nothing was delivered.
PostFails(p) ==
  /\ pc[p] = "returned"
  /\ Raise(p, "post")
  /\ UNCHANGED <<globals, nEvents, ev, question, standalone, docs, answer,
                 msg, response, posts, calls, histAtStart, histSeen,
                 indexResp>>

\* --------------------------------------------------------- specifications
\* handler for any event.
Handler(p, e) ==
  \/ HandleChallenge(p, e)
  \/ HandleBotMessage(p, e)
  \/ HandleTextlessMessage(p, e)
  \/ HandleMessage(p, e)

\* What an invocation in flight does next, the index answering from R.
StepWith(p, R) ==
  \/ CondensePassThrough(p)
  \/ \E sq \in LLMQuestions : CondenseOk(p, sq)
  \/ CondenseFails(p)
  \/ \E resp \in R : RetrieveOk(p, resp)
  \/ RetrieveFails(p)
  \/ \E a \in LLMAnswers : GenerateOk(p, a)
  \/ GenerateFails(p)
  \/ Record(p)
  \/ Post(p)
  \/ PostFails(p)

\* What an invocation in flight does next.
Step(p) == StepWith(p, IndexResponses)

\* One invocation at a time: an event is handled to its end before the next.
Next ==
  \E p \in SeqProcs :
    \/ \E e \in Events : Handler(p, e)
    \/ Step(p)

Spec == Init /\ [][Next]_vars

\* The stages of a call in flight return or raise: the handler is not
\* suspended forever.
FairSpec == Spec /\ \A p \in SeqProcs : WF_vars(Step(p))

\* Invocations overlapping on the same module state.
NextConc ==
  \E p \in Procs :
    \/ \E e \in Events : Handler(p, e)
    \/ Step(p)

SpecConc == Init /\ [][NextConc]_vars

\* One invocation at a time, against an index that may hold more than top_k
\* matching documents.
NextTopK ==
  \E p \in SeqProcs :
    \/ \E e \in Events : Handler(p, e)
    \/ StepWith(p, LongResponses)

SpecTopK == Init /\ [][NextTopK]_vars

\* ------------------------------------------------------------- properties
\* The turn a call of call_bedrock records.
TurnOf(p) == <<question[p], answer[p]>>

\* call_bedrock returned its text to handle_message.
CallReturned(p) ==
  \/ pc[p] = "returned"
  \/ pc[p] = "done" /\ calls[p] = 1
  \/ pc[p] = "raised" /\ failedAt[p] = "post"

\* call_bedrock raised: in a stage of the chain or while listing the sources.
CallRaised(p) ==
  pc[p] = "raised" /\ failedAt[p] \in {"condensing", "retrieving", "generating", "sources"}

\* A stage of the chain raised.
StageFailed(p) ==
  pc[p] = "raised" /\ failedAt[p] \in {"condensing", "retrieving", "generating"}

\* The call read chat_history for the condenser and has not appended yet.
BetweenReadAndAppend(p) == pc[p] \in {"condensed", "retrieved", "generated"}

\* C1: a call of call_bedrock either returns with the history grown by exactly
\* one turn, that of the question passed in, or raises with the history grown
\* by no turn; it never raises and leaves a new turn.
C1_ReturnsWithTurnOrRaisesWithout ==
  \A p \in Procs :
    /\ CallReturned(p) => chat_history = Append(histAtStart[p], TurnOf(p))
    /\ CallRaised(p) => chat_history = histAtStart[p]

\* C2: when the condensing, retrieving or generating stage fails, the history
\* is the one the call started with, the exception leaves handler (there is
\* no response), no text was built and nothing was posted.
C2_StageFailureLeavesHistory ==
  \A p \in Procs :
    StageFailed(p) =>
      /\ chat_history = histAtStart[p]
      /\ response[p] = NoResponse
      /\ msg[p] = <<>>
      /\ posts[p] = <<>>

C2_Witness ==
  \E p \in Procs :
    /\ pc[p] = "raised" /\ failedAt[p] = "generating"
    /\ chat_history # <<>>

\* C3: the history the condenser is given is exactly the sequence of turns of
\* the earlier calls that returned, in call order.
C3_HistoryIsTurnsOfReturnedCalls ==
  \A p \in Procs : BetweenReadAndAppend(p) => histSeen[p] = okTurns

\* C4: the history the condenser is given for an event of conversation
\* (channel, user) holds only turns recorded for that conversation.
C4_HistoryOfOwnConversation ==
  \A p \in Procs :
    BetweenReadAndAppend(p) =>
      \A i \in 1..Len(histSeen[p]) : turn_key[i] = Key(ev[p])

\* C5: every step leaves the earlier chat_history as a prefix of the later
\* one: turns are appended, never removed, reordered or changed.
C5_AppendOnly == [][IsPrefix(chat_history, chat_history')]_vars

C5_Witness ==
  /\ Len(chat_history) = 2
  /\ chat_history[1] # chat_history[2]

\* C6: between a call's read of the history for condensing and its append, no
\* other call of the same conversation appends a turn.
C6_SessionAccessSerialized ==
  \A p \in Procs :
    BetweenReadAndAppend(p) =>
      \A i \in (Len(histSeen[p]) + 1)..Len(chat_history) : turn_key[i] # Key(ev[p])

\* The moves of a call between its control points, each a stage completed or
\* the stage that raised.
StageMoves ==
  {<<"received", "condensed">>, <<"condensed", "retrieved">>,
   <<"retrieved", "generated">>, <<"generated", "returned">>,
   <<"received", "raised">>, <<"condensed", "raised">>,
   <<"retrieved", "raised">>, <<"generated", "raised">>}

\* The stage whose completion or failure ends a control point.
StageAt(c) ==
  CASE c = "received" -> "condensing"
    [] c = "condensed" -> "retrieving"
    [] c = "retrieved" -> "generating"
    [] OTHER -> "sources"

InPipeline(p) == pc[p] \in {"received", "condensed", "retrieved", "generated"}

\* One step of the system keeps every call on the path of the stages.
StagesInOrderStep ==
  /\ \A p \in Procs :
       (InPipeline(p) /\ pc'[p] # pc[p]) =>
         /\ <<pc[p], pc'[p]>> \in StageMoves
         /\ pc'[p] = "raised" => failedAt'[p] = StageAt(pc[p])
  /\ chat_history' # chat_history =>
       \E p \in Procs :
         /\ pc[p] = "generated" /\ answer[p] \in LLMAnswers
         /\ pc'[p] \in {"returned", "raised"}
         /\ chat_history' = Append(chat_history, TurnOf(p))

\* The call has recorded its turn.
CallRecorded(p) ==
  pc[p] = "returned" \/ (pc[p] = "raised" /\ failedAt[p] = "sources")

\* C7: a call goes through received, condensing, retrieving, generating and
\* recorded in this order, or fails at the stage that raised; no stage runs
\* twice, a turn is recorded only after generation succeeded, and every call
\* ends recorded or failed.
C7_StagesInOrder ==
  /\ [][StagesInOrderStep]_vars
  /\ \A p \in SeqProcs : (pc[p] = "received") ~> (CallRecorded(p) \/ StageFailed(p))

C7_Witness ==
  \E p \in Procs :
    /\ pc[p] = "returned"
    /\ histSeen[p] # <<>>
    /\ chat_history = Append(histSeen[p], TurnOf(p))

\* An event that handle_message passes to call_bedrock.
Eligible(e) == e.type # "url_verification" /\ e.user # BotUser /\ e.hasText

\* C8 as stated: every event handled to its end ran the chain exactly once.
C8_EveryEventOneCall ==
  \A p \in Procs : pc[p] \in {"done", "raised"} => calls[p] = 1

\* C8, amended: an event that is not a url_verification, is not written by
\* the bot and carries a text runs the chain exactly once; every other event
\* runs it not at all; no event runs it more than once.
C8_EligibleEventOneCall ==
  \A p \in Procs :
    pc[p] # "idle" => calls[p] = (IF Eligible(ev[p]) THEN 1 ELSE 0)

C8_Witness ==
  \E p \in Procs : pc[p] = "done" /\ Eligible(ev[p]) /\ calls[p] = 1

\* The source identifiers of the documents, in their order.
SourceIdsOf(ds) == [i \in 1..Len(ds) |-> ds[i].source]

\* C9: the sources listed in the text a call returns are the source
\* identifiers of all documents the retrieval returned, in retrieval order.
C9_CitedSourcesAreRetrieved ==
  \A p \in Procs :
    CallReturned(p) =>
      /\ CitedSources(msg[p]) = SourceIdsOf(docs[p])
      /\ Len(CitedSources(msg[p])) = Len(docs[p])

C9_Witness ==
  \E p \in Procs :
    /\ pc[p] = "returned"
    /\ Len(docs[p]) = 2
    /\ docs[p][1].source = docs[p][2].source

\* C10: with no document retrieved the call goes on: generation can run on
\* the empty document set, listing the sources does not raise, one turn is
\* recorded and the returned text lists no source.
C10_NoDocumentsIsNoError ==
  \A p \in Procs :
    /\ (pc[p] = "retrieved" /\ docs[p] = <<>>) =>
         ENABLED (\E a \in LLMAnswers : GenerateOk(p, a))
    /\ (pc[p] = "generated" /\ docs[p] = <<>>) =>
         FormatResult(answer[p], docs[p]).ok
    /\ ~(pc[p] = "raised" /\ failedAt[p] = "sources" /\ docs[p] = <<>>)
    /\ (pc[p] = "returned" /\ docs[p] = <<>>) =>
         /\ chat_history = Append(histAtStart[p], TurnOf(p))
         /\ msg[p] = <<answer[p], SourcesHeader>>
         /\ CitedSources(msg[p]) = <<>>

C10_Witness ==
  \E p \in Procs :
    /\ pc[p] = "returned"
    /\ docs[p] = <<>>
    /\ histSeen[p] # <<>>

\* C11: the documents handed to generation, and so the sources listed, are
\* the first documents of the index's answer in its order, and never more
\* than top_k = 5, whatever the size of the answer.
C11_AtMostTopKInOrder ==
  \A p \in Procs :
    /\ Len(docs[p]) <= top_k
    /\ Len(docs[p]) = Min(Len(indexResp[p]), top_k)
    /\ IsPrefix(docs[p], indexResp[p])
    /\ CallReturned(p) => Len(CitedSources(msg[p])) <= top_k

C11_Witness ==
  \E p \in Procs :
    /\ pc[p] = "returned"
    /\ Len(indexResp[p]) > top_k
    /\ Len(docs[p]) = top_k
    /\ CitedSources(msg[p]) = SourceIdsOf(docs[p])

\* A message event written by another user than the bot.
IsUserMessage(e) == e.type = "event_callback" /\ e.user # BotUser
\* A message event written by the bot itself.
IsBotMessage(e) == e.type = "event_callback" /\ e.user = BotUser

\* The response of handle_message.
MessageReceived == [statusCode |-> 200, body |-> "message recevied"]

\* C12: when the handling of a message of a non-bot user ends with the 200,
\* exactly one chat.postMessage was issued, to the channel and the user of
\* the event, carrying the text call_bedrock returned; a request is issued
\* only with the turn already appended, and when the request raises the turn
\* stays recorded with nothing posted.
C12_OnePostAfterRecording ==
  \A p \in Procs :
    /\ (pc[p] = "done" /\ IsUserMessage(ev[p])) =>
         /\ response[p] = MessageReceived
         /\ Len(posts[p]) = 1
         /\ posts[p][1].channel = ev[p].channel
         /\ posts[p][1].mention = ev[p].user
         /\ posts[p][1].text = msg[p]
    /\ posts[p] # <<>> => chat_history = Append(histAtStart[p], TurnOf(p))
    /\ (pc[p] = "raised" /\ failedAt[p] = "post") =>
         /\ posts[p] = <<>>
         /\ response[p] = NoResponse
         /\ chat_history = Append(histAtStart[p], TurnOf(p))

C12_Witness ==
  \E p \in Procs :
    /\ pc[p] = "done" /\ IsUserMessage(ev[p])
    /\ posts[p][1].channel = "C2"
    /\ histAtStart[p] # <<>>

\* The step that delivers an event to handler.
Delivery == nEvents' # nEvents

\* C13: a message event written by the bot itself gets the 200 and nothing
\* else: the chain is not run, chat_history stays as it was and nothing is
\* posted.
C13_BotMessageIgnored ==
  /\ [](\A p \in Procs :
          IsBotMessage(ev[p]) =>
            /\ pc[p] = "done"
            /\ response[p] = MessageReceived
            /\ calls[p] = 0
            /\ posts[p] = <<>>)
  /\ [][(Delivery /\ \E p \in SeqProcs : IsBotMessage(ev'[p]))
          => chat_history' = chat_history]_vars

C13_Witness ==
  \E p \in Procs :
    /\ IsBotMessage(ev[p]) /\ ev[p].hasText
    /\ pc[p] = "done"
    /\ chat_history # <<>>

\* What handle_message makes of an event: the 200 for the bot's own message,
\* an exception for a message without text, a call of call_bedrock otherwise.
HandledAsMessage(p) ==
  IF ev[p].user = BotUser THEN pc[p] = "done" /\ response[p] = MessageReceived
  ELSE IF ~ev[p].hasText THEN pc[p] = "raised" /\ failedAt[p] = "text"
  ELSE calls[p] = 1 /\ (pc[p] = "done" => response[p] = MessageReceived)

\* C14: a url_verification event is answered with 200 and the challenge of
\* its body, without running the chain, changing chat_history or posting;
\* an event of any other type is handled by handle_message.
C14_ChallengeAnsweredOnly ==
  /\ [](\A p \in Procs :
          /\ ev[p].type = "url_verification" =>
               /\ pc[p] = "done"
               /\ response[p] = [statusCode |-> 200, body |-> ev[p].challenge]
               /\ calls[p] = 0
               /\ posts[p] = <<>>
          /\ ev[p].type = "event_callback" => HandledAsMessage(p))
  /\ [][(Delivery /\ \E p \in SeqProcs : ev'[p].type = "url_verification")
          => chat_history' = chat_history]_vars

C14_Witness ==
  \E p \in Procs :
    /\ ev[p].type = "url_verification"
    /\ response[p].body = "ch2"
    /\ chat_history # <<>>

\* A turn is a question and an answer of the LLM, nothing more.
TurnHoldsAnswerAlone(t) == Len(t) = 2 /\ t[2] \in LLMAnswers

\* C15: the answer of a recorded turn is the generator's answer alone: the
\* sources listed in the returned text are not in chat_history, nor in the
\* history a later call hands to the condenser.
C15_SourcesNotInHistory ==
  \A p \in Procs :
    /\ \A i \in 1..Len(chat_history) : TurnHoldsAnswerAlone(chat_history[i])
    /\ \A i \in 1..Len(histSeen[p]) : TurnHoldsAnswerAlone(histSeen[p][i])
    /\ CallReturned(p) =>
         /\ chat_history[Len(chat_history)] = <<question[p], answer[p]>>
         /\ msg[p] = <<answer[p], SourcesHeader>> \o SubSeq(msg[p], 3, Len(msg[p]))

C15_Witness ==
  \E p \in Procs :
    /\ pc[p] = "returned"
    /\ histSeen[p] # <<>> /\ histSeen[p] = okTurns
    /\ Len(CitedSources(msg[p])) = 2

====
